---- MODULE Spec2Model ----
(***************************************************************************)
(* A model of similarity_search/include/params.h: the string-backed        *)
(* parameter set AnyParams and the consumption-tracking AnyParamManager.   *)
(*                                                                         *)
(* Text (a token, a name, a value) is a sequence of one-character strings, *)
(* so that splitting, joining, formatting and parsing do real work.        *)
(***************************************************************************)
EXTENDS Integers, Sequences, FiniteSets, TLC

VARIABLES
  MethodDesc,   \* the raw tokens handed to AnyParams(const vector<string>&)
  built,        \* TRUE once an AnyParams object exists
  ParamNames,   \* AnyParams::ParamNames
  ParamValues,  \* AnyParams::ParamValues
  mgr,          \* the AnyParamManager: "none", "Active" or "Closed"
  seen,         \* AnyParamManager::seen
  Value,        \* the caller's variable passed by reference to a getter
  extracted,    \* the AnyParams returned by the last ExtractParametersExcept
  report,       \* the names logged by the destructor as "Unknown parameter"
  validations,  \* how many times the destructor's validation has run
  err,          \* the LOG(FATAL) that ended the program, if any
  changes,      \* how many times ChangeParam has been called
  call          \* the last operation performed and its arguments

vars == <<MethodDesc, built, ParamNames, ParamValues, mgr, seen, Value,
          extracted, report, validations, err, changes, call>>

----------------------------------------------------------------------------
(* Bounds and input pools *)

MaxTokens == 3
MaxChanges == 1

A == <<"a">>
B == <<"b">>
C == <<"c">>
T42 == <<"4", "2">>
T42x == <<"4", "2", "x">>
T4 == <<"4">>

Names == {A, B, C}

Eq == "="

\* name=value
Pair(n, v) == n \o <<Eq>> \o v

\* The pieces the tokens of the parsing specification are made of.
Parts == {A, T42}

\* Tokens with zero, one and two '=' signs.
ParseTokens ==
  Parts \cup {Pair(p, q) : p \in Parts, q \in Parts}
        \cup {Pair(p, Pair(q, r)) : p \in Parts, q \in Parts, r \in Parts}

\* Well-formed tokens over three names, for the manager specification.
ManagerTokens == {Pair(n, T42) : n \in Names} \cup {Pair(A, T42x)}

\* Arguments of AnyParams(Names, Values), which checks nothing: a repeated
\* name, and more values than names.
PairInputs ==
  {[Names |-> <<A, B, A>>, Values |-> <<T42, T42, T4>>],
   [Names |-> <<A>>, Values |-> <<T42, T42>>]}

RECURSIVE ListsOver(_, _)
ListsOver(S, n) ==
  IF n = 0 THEN {<<>>}
  ELSE LET shorter == ListsOver(S, n - 1)
       IN shorter \cup {Append(l, t) : l \in {s \in shorter : Len(s) = n - 1}, t \in S}

IntValue(n) == [type |-> "int", n |-> n, s |-> <<>>]
StrValue(s) == [type |-> "string", n |-> 0, s |-> s]
NoValue == [type |-> "none", n |-> 0, s |-> <<>>]

NoParams == [ParamNames |-> <<>>, ParamValues |-> <<>>]

\* Defaults a caller establishes before a getter call.
Defaults == {IntValue(3), StrValue(<<"d">>)}

\* Replacement values handed to ChangeParam.
NewValues == {IntValue(7), StrValue(<<"x">>)}

ExceptLists ==
  {<<>>} \cup {<<n>> : n \in Names} \cup {<<n, m>> : n \in Names, m \in Names}

NoErr == [kind |-> "none", arg |-> <<>>]
Fatal(kind, arg) == [kind |-> kind, arg |-> arg]

\* A fatal log that returns to its caller.
RunningAfterFatal == TRUE

\* LOG(FATAL) ends the program: nothing runs after it.
Running == err = NoErr

----------------------------------------------------------------------------
(* AnyParams *)

\* The parts of str between the occurrences of SplitChar.
RECURSIVE SplitStr(_, _)
SplitStr(str, SplitChar) ==
  IF \A i \in 1..Len(str) : str[i] # SplitChar THEN <<str>>
  ELSE LET k == CHOOSE i \in 1..Len(str) :
                  /\ str[i] = SplitChar
                  /\ \A j \in 1..(i - 1) : str[j] # SplitChar
       IN <<SubSeq(str, 1, k - 1)>> \o SplitStr(SubSeq(str, k + 1, Len(str)), SplitChar)

\* Only a token without a separator is rejected.
WrongFormatTooFew(OneParamPair) == Len(OneParamPair) < 2

WrongFormat(OneParamPair) == Len(OneParamPair) # 2

\* The duplicate check left out.
IsDuplicateNever(seenNames, Name) == FALSE

IsDuplicate(seenNames, Name) == Name \in seenNames

\* The value stored with the name in front of it.
RECURSIVE AnyParamsLoopKeepsName(_, _, _, _, _)
AnyParamsLoopKeepsName(desc, i, seenNames, names, values) ==
  IF i > Len(desc)
  THEN [err |-> NoErr, ParamNames |-> names, ParamValues |-> values]
  ELSE LET OneParamPair == SplitStr(desc[i], Eq) IN
       IF WrongFormat(OneParamPair)
       THEN [err |-> Fatal("malformed", desc[i]), ParamNames |-> names, ParamValues |-> values]
       ELSE LET Name == OneParamPair[1]
                sVal == OneParamPair[1] \o OneParamPair[2]
            IN IF IsDuplicate(seenNames, Name)
               THEN [err |-> Fatal("duplicate", Name), ParamNames |-> names, ParamValues |-> values]
               ELSE AnyParamsLoopKeepsName(desc, i + 1, seenNames \cup {Name},
                                           Append(names, Name), Append(values, sVal))

\* The value of a repeated value text not stored again.
RECURSIVE AnyParamsLoopDropsValue(_, _, _, _, _)
AnyParamsLoopDropsValue(desc, i, seenNames, names, values) ==
  IF i > Len(desc)
  THEN [err |-> NoErr, ParamNames |-> names, ParamValues |-> values]
  ELSE LET OneParamPair == SplitStr(desc[i], Eq) IN
       IF WrongFormat(OneParamPair)
       THEN [err |-> Fatal("malformed", desc[i]), ParamNames |-> names, ParamValues |-> values]
       ELSE LET Name == OneParamPair[1]
                sVal == OneParamPair[2]
            IN IF IsDuplicate(seenNames, Name)
               THEN [err |-> Fatal("duplicate", Name), ParamNames |-> names, ParamValues |-> values]
               ELSE AnyParamsLoopDropsValue(desc, i + 1, seenNames \cup {Name},
                      Append(names, Name),
                      IF \E j \in 1..Len(values) : values[j] = sVal
                      THEN values ELSE Append(values, sVal))

\* The loop of AnyParams(const vector<string>& MethodDesc), from token i on.
RECURSIVE AnyParamsLoop(_, _, _, _, _)
AnyParamsLoop(desc, i, seenNames, names, values) ==
  IF i > Len(desc)
  THEN [err |-> NoErr, ParamNames |-> names, ParamValues |-> values]
  ELSE LET OneParamPair == SplitStr(desc[i], Eq) IN
       IF WrongFormat(OneParamPair)
       THEN [err |-> Fatal("malformed", desc[i]), ParamNames |-> names, ParamValues |-> values]
       ELSE LET Name == OneParamPair[1]
                sVal == OneParamPair[2]
            IN IF IsDuplicate(seenNames, Name)
               THEN [err |-> Fatal("duplicate", Name), ParamNames |-> names, ParamValues |-> values]
               ELSE AnyParamsLoop(desc, i + 1, seenNames \cup {Name},
                                  Append(names, Name), Append(values, sVal))

AnyParamsOf(desc) == AnyParamsLoop(desc, 1, {}, <<>>, <<>>)

Digits == <<"0", "1", "2", "3", "4", "5", "6", "7", "8", "9">>

RECURSIVE NatToStr(_)
NatToStr(n) ==
  IF n < 10 THEN <<Digits[n + 1]>>
  ELSE NatToStr(n \div 10) \o <<Digits[(n % 10) + 1]>>

\* str << Value
Serialize(V) ==
  IF V.type = "int"
  THEN (IF V.n < 0 THEN <<"-">> \o NatToStr(-V.n) ELSE NatToStr(V.n))
  ELSE V.s

\* The loop without its return: the last entry called Name.
FirstIndexLast(names, Name) ==
  IF \E i \in 1..Len(names) : names[i] = Name
  THEN CHOOSE i \in 1..Len(names) :
         /\ names[i] = Name
         /\ \A j \in (i + 1)..Len(names) : names[j] # Name
  ELSE 0

\* The index ChangeParam's loop stops at, 0 when it runs to the end.
FirstIndex(names, Name) ==
  IF \E i \in 1..Len(names) : names[i] = Name
  THEN CHOOSE i \in 1..Len(names) :
         /\ names[i] = Name
         /\ \A j \in 1..(i - 1) : names[j] # Name
  ELSE 0

\* ChangeParam(Name, Value) on the set with these names and values: the
\* values and the fatal error, if any, after the call.
ChangeParamOf(names, values, Name, V) ==
  LET i == FirstIndex(names, Name) IN
    IF i # 0
    THEN [ParamValues |-> [values EXCEPT ![i] = Serialize(V)], err |-> NoErr]
    ELSE [ParamValues |-> values, err |-> Fatal("notfound", Name)]

----------------------------------------------------------------------------
(* Actions on the parameter set *)

Idle == [op |-> "start"]

\* Value and extracted hold what the last call handed back to its caller.
NoOutput == Value' = NoValue /\ extracted' = NoParams

ManagerUntouched == NoOutput /\ UNCHANGED <<mgr, seen, report, validations>>

\* AnyParams(const vector<string>& MethodDesc)
AnyParamsFromTokens ==
  /\ Running /\ ~built
  /\ LET r == AnyParamsOf(MethodDesc) IN
       /\ err' = r.err
       /\ built' = (r.err = NoErr)
       /\ ParamNames' = IF r.err = NoErr THEN r.ParamNames ELSE <<>>
       /\ ParamValues' = IF r.err = NoErr THEN r.ParamValues ELSE <<>>
  /\ call' = [op |-> "AnyParams"]
  /\ UNCHANGED <<MethodDesc, changes>>
  /\ ManagerUntouched

\* AnyParams()
AnyParamsEmpty ==
  /\ Running /\ ~built /\ MethodDesc = <<>>
  /\ built' = TRUE
  /\ ParamNames' = <<>>
  /\ ParamValues' = <<>>
  /\ call' = [op |-> "AnyParamsEmpty"]
  /\ UNCHANGED <<MethodDesc, err, changes>>
  /\ ManagerUntouched

\* AnyParams(const vector<string>& Names, const vector<string>& Values)
AnyParamsFromPairs ==
  /\ Running /\ ~built /\ MethodDesc = <<>>
  /\ \E in \in PairInputs :
       /\ ParamNames' = in.Names
       /\ ParamValues' = in.Values
  /\ built' = TRUE
  /\ call' = [op |-> "AnyParamsFromPairs"]
  /\ UNCHANGED <<MethodDesc, err, changes>>
  /\ ManagerUntouched

\* ChangeParam(Name, Value)
ChangeParam ==
  /\ Running /\ built /\ changes < MaxChanges
  /\ changes' = changes + 1
  /\ \E Name \in Names, V \in NewValues :
       LET r == ChangeParamOf(ParamNames, ParamValues, Name, V) IN
         /\ call' = [op |-> "ChangeParam", Name |-> Name, Value |-> V]
         /\ ParamValues' = r.ParamValues
         /\ err' = r.err
  /\ UNCHANGED <<MethodDesc, built, ParamNames>>
  /\ ManagerUntouched

----------------------------------------------------------------------------
(* AnyParamManager *)

IsDigit(c) == \E d \in 1..10 : Digits[d] = c

DigitValue(c) == (CHOOSE d \in 1..10 : Digits[d] = c) - 1

\* The length of the longest prefix of s made of digits.
RECURSIVE DigitPrefix(_)
DigitPrefix(s) ==
  IF s # <<>> /\ IsDigit(Head(s)) THEN 1 + DigitPrefix(Tail(s)) ELSE 0

RECURSIVE DigitsToNat(_, _)
DigitsToNat(s, acc) ==
  IF s = <<>> THEN acc ELSE DigitsToNat(Tail(s), 10 * acc + DigitValue(Head(s)))

IntMax == 2147483647

\* stringstream str(s); str >> Value for an int: an optional sign, then
\* digits. ok is the state of the stream after the extraction, eof whether
\* the extraction reached the end of the text.
ExtractInt(s) ==
  LET signed == s # <<>> /\ Head(s) \in {"-", "+"}
      body == IF signed THEN Tail(s) ELSE s
      k == DigitPrefix(body)
      magnitude == DigitsToNat(SubSeq(body, 1, k), 0)
      n == IF signed /\ Head(s) = "-" THEN -magnitude ELSE magnitude
  IN IF k = 0 THEN [ok |-> FALSE, eof |-> body = <<>>, n |-> 0]
     ELSE IF n > IntMax \/ n < -IntMax - 1
          THEN [ok |-> FALSE, eof |-> k = Len(body), n |-> IF n > 0 THEN IntMax ELSE -IntMax - 1]
          ELSE [ok |-> TRUE, eof |-> k = Len(body), n |-> n]

\* The conversion without the test for the end of the text.
ConvertStrToValueIgnoresRest(s, V) ==
  IF V.type = "string"
  THEN [ok |-> TRUE, Value |-> StrValue(s)]
  ELSE LET r == ExtractInt(s)
       IN [ok |-> r.ok, Value |-> IntValue(r.n)]

\* ConvertStrToValue<ParamType>(s, Value) and its specialisation for string.
ConvertStrToValue(s, V) ==
  IF V.type = "string"
  THEN [ok |-> TRUE, Value |-> StrValue(s)]
  ELSE LET r == ExtractInt(s)
       IN [ok |-> r.ok /\ r.eof, Value |-> IntValue(r.n)]

\* The loop of GetParam from entry i on: every entry named Name is converted.
RECURSIVE GetParamLoop(_, _, _, _, _, _)
GetParamLoop(names, values, Name, i, bFound, V) ==
  IF i > Len(names)
  THEN [bFound |-> bFound, Value |-> V, err |-> NoErr]
  ELSE IF Name = names[i]
       THEN LET c == ConvertStrToValue(values[i], V) IN
            IF c.ok
            THEN GetParamLoop(names, values, Name, i + 1, TRUE, c.Value)
            ELSE [bFound |-> TRUE, Value |-> c.Value, err |-> Fatal("conversion", values[i])]
       ELSE GetParamLoop(names, values, Name, i + 1, bFound, V)

\* A getter that ignores bRequired: a missing name is never fatal.
GetParamNeverRequired(names, values, seenNames, Name, V, bRequired) ==
  LET r == GetParamLoop(names, values, Name, 1, FALSE, V) IN
    IF r.err # NoErr
    THEN [Value |-> r.Value, seen |-> seenNames, err |-> r.err]
    ELSE [Value |-> r.Value, seen |-> seenNames \cup {Name}, err |-> NoErr]

\* The name marked seen before the test for a missing required parameter.
GetParamMarksMissing(names, values, seenNames, Name, V, bRequired) ==
  LET r == GetParamLoop(names, values, Name, 1, FALSE, V) IN
    IF r.err # NoErr
    THEN [Value |-> r.Value, seen |-> seenNames, err |-> r.err]
    ELSE IF ~r.bFound /\ bRequired
         THEN [Value |-> r.Value, seen |-> seenNames \cup {Name}, err |-> Fatal("missing", Name)]
         ELSE [Value |-> r.Value, seen |-> seenNames \cup {Name}, err |-> NoErr]

\* seen assigned the name instead of having it inserted.
GetParamForgets(names, values, seenNames, Name, V, bRequired) ==
  LET r == GetParamLoop(names, values, Name, 1, FALSE, V) IN
    IF r.err # NoErr
    THEN [Value |-> r.Value, seen |-> seenNames, err |-> r.err]
    ELSE IF ~r.bFound /\ bRequired
         THEN [Value |-> r.Value, seen |-> seenNames, err |-> Fatal("missing", Name)]
         ELSE [Value |-> r.Value, seen |-> {Name}, err |-> NoErr]

\* An optional getter that keeps the default when the conversion fails.
GetParamOptionalFallsBack(names, values, seenNames, Name, V, bRequired) ==
  LET r == GetParamLoop(names, values, Name, 1, FALSE, V) IN
    IF r.err # NoErr
    THEN (IF bRequired
          THEN [Value |-> r.Value, seen |-> seenNames, err |-> r.err]
          ELSE [Value |-> V, seen |-> seenNames \cup {Name}, err |-> NoErr])
    ELSE IF ~r.bFound /\ bRequired
         THEN [Value |-> r.Value, seen |-> seenNames, err |-> Fatal("missing", Name)]
         ELSE [Value |-> r.Value, seen |-> seenNames \cup {Name}, err |-> NoErr]

\* GetParam(Name, Value, bRequired): the caller's Value, the seen set and the
\* fatal error, if any, after the call.
GetParam(names, values, seenNames, Name, V, bRequired) ==
  LET r == GetParamLoop(names, values, Name, 1, FALSE, V) IN
    IF r.err # NoErr
    THEN [Value |-> r.Value, seen |-> seenNames, err |-> r.err]
    ELSE IF ~r.bFound /\ bRequired
         THEN [Value |-> r.Value, seen |-> seenNames, err |-> Fatal("missing", Name)]
         ELSE [Value |-> r.Value, seen |-> seenNames \cup {Name}, err |-> NoErr]

\* set<string> except(ExceptList.begin(), ExceptList.end())
ExceptSet(ExceptList) == {ExceptList[i] : i \in 1..Len(ExceptList)}

\* The test inverted: the listed names are the ones taken.
OnExceptionList(except, name) == name \in except

\* Whether ExtractParametersExcept's loop takes the entry called name.
NotOnExceptionList(except, name) == name \notin except

\* Every name of the set marked seen, extracted or not.
RECURSIVE ExtractLoopSeesAll(_, _, _, _, _, _, _)
ExtractLoopSeesAll(pnames, pvalues, except, i, names, values, seenNames) ==
  IF i > Len(pnames)
  THEN [ParamNames |-> names, ParamValues |-> values, seen |-> seenNames]
  ELSE LET name == pnames[i] IN
       IF NotOnExceptionList(except, name)
       THEN ExtractLoopSeesAll(pnames, pvalues, except, i + 1,
                               Append(names, name), Append(values, pvalues[i]),
                               seenNames \cup {name})
       ELSE ExtractLoopSeesAll(pnames, pvalues, except, i + 1, names, values,
                               seenNames \cup {name})

\* The extracted names not marked seen.
RECURSIVE ExtractLoopSeesNone(_, _, _, _, _, _, _)
ExtractLoopSeesNone(pnames, pvalues, except, i, names, values, seenNames) ==
  IF i > Len(pnames)
  THEN [ParamNames |-> names, ParamValues |-> values, seen |-> seenNames]
  ELSE LET name == pnames[i] IN
       IF NotOnExceptionList(except, name)
       THEN ExtractLoopSeesNone(pnames, pvalues, except, i + 1,
                                Append(names, name), Append(values, pvalues[i]),
                                seenNames)
       ELSE ExtractLoopSeesNone(pnames, pvalues, except, i + 1, names, values, seenNames)

\* The loop of ExtractParametersExcept from entry i on.
RECURSIVE ExtractLoop(_, _, _, _, _, _, _)
ExtractLoop(pnames, pvalues, except, i, names, values, seenNames) ==
  IF i > Len(pnames)
  THEN [ParamNames |-> names, ParamValues |-> values, seen |-> seenNames]
  ELSE LET name == pnames[i] IN
       IF NotOnExceptionList(except, name)
       THEN ExtractLoop(pnames, pvalues, except, i + 1,
                        Append(names, name), Append(values, pvalues[i]),
                        seenNames \cup {name})
       ELSE ExtractLoop(pnames, pvalues, except, i + 1, names, values, seenNames)

\* A destructor that stops at the first name it does not find in seen.
RECURSIVE UnknownParametersFirstOnly(_, _)
UnknownParametersFirstOnly(names, seenNames) ==
  IF names = <<>> THEN <<>>
  ELSE IF Head(names) \notin seenNames THEN <<Head(names)>>
       ELSE UnknownParametersFirstOnly(Tail(names), seenNames)

\* The names the destructor logs as "Unknown parameter", in order.
RECURSIVE UnknownParameters(_, _)
UnknownParameters(names, seenNames) ==
  IF names = <<>> THEN <<>>
  ELSE (IF Head(names) \notin seenNames THEN <<Head(names)>> ELSE <<>>)
         \o UnknownParameters(Tail(names), seenNames)

----------------------------------------------------------------------------
(* Actions on the manager *)

SetUntouched == UNCHANGED <<MethodDesc, built, ParamNames, ParamValues, changes>>

\* A constructor without the test of the two sizes.
AnyParamManagerUnchecked ==
  /\ Running /\ built /\ mgr = "none"
  /\ seen' = {}
  /\ err' = err
  /\ mgr' = "Active"
  /\ call' = [op |-> "AnyParamManager"]
  /\ SetUntouched
  /\ NoOutput
  /\ UNCHANGED <<report, validations>>

\* AnyParamManager(const AnyParams& params)
AnyParamManager ==
  /\ Running /\ built /\ mgr = "none"
  /\ seen' = {}
  /\ IF Len(ParamNames) # Len(ParamValues)
     THEN /\ err' = Fatal("bug", <<>>)
          /\ mgr' = mgr
     ELSE /\ err' = err
          /\ mgr' = "Active"
  /\ call' = [op |-> "AnyParamManager"]
  /\ SetUntouched
  /\ NoOutput
  /\ UNCHANGED <<report, validations>>

\* GetParamRequired(Name, Value)
GetParamRequired ==
  /\ Running /\ mgr = "Active"
  /\ \E Name \in Names, V \in Defaults :
       LET r == GetParam(ParamNames, ParamValues, seen, Name, V, TRUE) IN
         /\ Value' = r.Value
         /\ seen' = r.seen
         /\ err' = r.err
         /\ call' = [op |-> "GetParamRequired", Name |-> Name, Value |-> V]
  /\ SetUntouched
  /\ extracted' = NoParams
  /\ UNCHANGED <<mgr, report, validations>>

\* GetParamOptional(Name, Value)
GetParamOptional ==
  /\ Running /\ mgr = "Active"
  /\ \E Name \in Names, V \in Defaults :
       LET r == GetParam(ParamNames, ParamValues, seen, Name, V, FALSE) IN
         /\ Value' = r.Value
         /\ seen' = r.seen
         /\ err' = r.err
         /\ call' = [op |-> "GetParamOptional", Name |-> Name, Value |-> V]
  /\ SetUntouched
  /\ extracted' = NoParams
  /\ UNCHANGED <<mgr, report, validations>>

\* An extraction that moves the entries out of the managed set.
ExtractParametersExceptMoves ==
  /\ Running /\ mgr = "Active"
  /\ \E ExceptList \in ExceptLists :
       LET r == ExtractLoop(ParamNames, ParamValues, ExceptSet(ExceptList),
                            1, <<>>, <<>>, seen)
           left == ExtractLoop(ParamNames, ParamValues,
                               {n \in Names : n \notin ExceptSet(ExceptList)},
                               1, <<>>, <<>>, seen)
       IN
         /\ extracted' = [ParamNames |-> r.ParamNames, ParamValues |-> r.ParamValues]
         /\ ParamNames' = left.ParamNames
         /\ ParamValues' = left.ParamValues
         /\ seen' = r.seen
         /\ call' = [op |-> "ExtractParametersExcept", ExceptList |-> ExceptList]
  /\ Value' = NoValue
  /\ UNCHANGED <<MethodDesc, built, changes, mgr, report, validations, err>>

\* ExtractParametersExcept(ExceptList)
ExtractParametersExcept ==
  /\ Running /\ mgr = "Active"
  /\ \E ExceptList \in ExceptLists :
       LET r == ExtractLoop(ParamNames, ParamValues, ExceptSet(ExceptList),
                            1, <<>>, <<>>, seen) IN
         /\ extracted' = [ParamNames |-> r.ParamNames, ParamValues |-> r.ParamValues]
         /\ seen' = r.seen
         /\ call' = [op |-> "ExtractParametersExcept", ExceptList |-> ExceptList]
  /\ SetUntouched
  /\ Value' = NoValue
  /\ UNCHANGED <<mgr, report, validations, err>>

\* A destructor with an empty body.
DestructorWithoutValidation ==
  /\ Running /\ mgr = "Active"
  /\ mgr' = "Closed"
  /\ call' = [op |-> "~AnyParamManager"]
  /\ SetUntouched
  /\ NoOutput
  /\ UNCHANGED <<seen, report, validations, err>>

\* ~AnyParamManager(): runs when the scope of the manager is left.
Destructor ==
  /\ Running /\ mgr = "Active"
  /\ LET unknown == UnknownParameters(ParamNames, seen)
         bFail == unknown # <<>>
     IN /\ report' = unknown
        /\ err' = IF bFail THEN Fatal("unknown", <<>>) ELSE err
  /\ validations' = validations + 1
  /\ mgr' = "Closed"
  /\ call' = [op |-> "~AnyParamManager"]
  /\ SetUntouched
  /\ NoOutput
  /\ UNCHANGED seen

----------------------------------------------------------------------------
(* Specifications *)

InitCommon ==
  /\ built = FALSE
  /\ ParamNames = <<>>
  /\ ParamValues = <<>>
  /\ mgr = "none"
  /\ seen = {}
  /\ Value = NoValue
  /\ extracted = NoParams
  /\ report = <<>>
  /\ validations = 0
  /\ err = NoErr
  /\ changes = 0
  /\ call = Idle

InitParse ==
  /\ MethodDesc \in ListsOver(ParseTokens, MaxTokens)
  /\ InitCommon

NextParse ==
  \/ AnyParamsFromTokens
  \/ AnyParamsEmpty
  \/ ChangeParam

SpecParse == InitParse /\ [][NextParse]_vars

Init ==
  /\ MethodDesc \in ListsOver(ManagerTokens, MaxTokens)
  /\ InitCommon

Next ==
  \/ AnyParamsFromTokens
  \/ AnyParamsEmpty
  \/ AnyParamsFromPairs
  \/ ChangeParam
  \/ AnyParamManager
  \/ GetParamRequired
  \/ GetParamOptional
  \/ ExtractParametersExcept
  \/ Destructor

Spec == Init /\ [][Next]_vars

----------------------------------------------------------------------------
(* Properties *)

Elems(q) == {q[i] : i \in 1..Len(q)}

Present(Name) == Name \in Elems(ParamNames)

\* C1: when the destructor has run, validation succeeded if and only if
\* every name of the managed set is in seen, and when it failed the names it
\* reported are all the names of the set that are not in seen.
C1_ValidationIffAllSeen ==
  call.op = "~AnyParamManager" =>
    /\ (err = NoErr) <=> (\A i \in 1..Len(ParamNames) : ParamNames[i] \in seen)
    /\ err # NoErr => err = Fatal("unknown", <<>>)
    /\ Elems(report) = {n \in Elems(ParamNames) : n \notin seen}

\* A validation that failed on two unconsumed names after another was consumed.
C1_Witness ==
  /\ call.op = "~AnyParamManager"
  /\ err.kind = "unknown"
  /\ Cardinality(Elems(report)) >= 2
  /\ seen \cap Elems(ParamNames) # {}

\* C2 as claimed: the validation has run exactly once whenever the manager's
\* scope has been left, be it normally or by a getter that failed.
C2_RunsOnEveryExit ==
  (mgr = "Closed" \/ err.kind \in {"missing", "conversion"}) => validations = 1

\* C2, amended: the validation never runs twice, it has run exactly once
\* when the scope was left normally, and it has not run at all after a
\* getter failed, because the fatal log ends the program there.
C2_RunsOnceOnNormalExit ==
  /\ validations <= 1
  /\ (mgr = "Closed") <=> (validations = 1)
  /\ err.kind \in {"missing", "conversion"} => (validations = 0 /\ mgr = "Active")

\* A getter that failed after another call had succeeded.
C2_Witness ==
  /\ err.kind \in {"missing", "conversion"}
  /\ mgr = "Active"
  /\ seen # {}
  /\ validations = 0

\* C3: for a name that is not in the managed set, GetParamRequired fails with
\* the missing-parameter error naming it, and GetParamOptional does not fail
\* and leaves the caller's value equal to the default passed in.
C3_AbsentName ==
  /\ (call.op = "GetParamRequired" /\ ~Present(call.Name))
       => err = Fatal("missing", call.Name)
  /\ (call.op = "GetParamOptional" /\ ~Present(call.Name))
       => (err = NoErr /\ Value = call.Value)

\* An optional lookup of an absent name in a set that is not empty.
C3_Witness ==
  /\ call.op = "GetParamOptional"
  /\ ~Present(call.Name)
  /\ ParamNames # <<>>
  /\ Value = call.Value
  /\ err = NoErr

\* The entries of the managed set whose name is not on the last exception list.
Kept == {i \in 1..Len(ParamNames) : ParamNames[i] \notin Elems(call.ExceptList)}

\* The place of entry i among the kept entries.
Rank(i) == Cardinality({j \in Kept : j <= i})

\* C4: the set returned by ExtractParametersExcept holds exactly the entries
\* of the managed set whose name is not on the exception list, in the order
\* of the managed set, and no entry whose name is on the list.
C4_ExtractFilters ==
  call.op = "ExtractParametersExcept" =>
    /\ Len(extracted.ParamNames) = Cardinality(Kept)
    /\ Len(extracted.ParamValues) = Cardinality(Kept)
    /\ \A i \in Kept :
         /\ extracted.ParamNames[Rank(i)] = ParamNames[i]
         /\ extracted.ParamValues[Rank(i)] = ParamValues[i]
    /\ Elems(extracted.ParamNames) \cap Elems(call.ExceptList) = {}

\* The middle entry of three taken out, the outer two kept.
C4_Witness ==
  /\ call.op = "ExtractParametersExcept"
  /\ Len(ParamNames) = 3
  /\ Kept = {1, 3}
  /\ ParamValues[1] # ParamValues[3]

\* The case of C5: ExtractParametersExcept({a}) has just run on a set with
\* the names a, b and c.
ExtractedExceptA ==
  /\ call.op = "ExtractParametersExcept"
  /\ call.ExceptList = <<A>>
  /\ Len(ParamNames) = 3
  /\ Elems(ParamNames) = {A, B, C}

\* C5 as claimed: after ExtractParametersExcept({a}) on a set with the names
\* a, b and c, a is in seen and is not an entry of the extracted set.
C5_ExcludedIsSeen ==
  ExtractedExceptA => (A \in seen /\ A \notin Elems(extracted.ParamNames))

\* C5, amended: ExtractParametersExcept({a}) on a set with the names a, b and
\* c adds exactly b and c to seen, so a is in seen afterwards only if it was
\* before, and a is not an entry of the extracted set.
C5_ExcludedNotMarked ==
  [][ExtractedExceptA' =>
       /\ seen' = seen \cup {B, C}
       /\ A \notin Elems(extracted'.ParamNames)]_vars

\* The extraction was all the manager did: b and c are seen, a is not.
C5_Witness ==
  /\ ExtractedExceptA
  /\ seen = {B, C}
  /\ Elems(extracted.ParamNames) = {B, C}

\* C6: right after ExtractParametersExcept every name of the returned set is
\* in seen, so that when every name left out was already seen the destructor
\* finds no unknown parameter.
C6_ExtractedAreSeen ==
  call.op = "ExtractParametersExcept" =>
    /\ Elems(extracted.ParamNames) \subseteq seen
    /\ (Elems(ParamNames) \cap Elems(call.ExceptList) \subseteq seen)
         => UnknownParameters(ParamNames, seen) = <<>>

\* One name consumed by a getter before, the other two extracted.
C6_Witness ==
  /\ call.op = "ExtractParametersExcept"
  /\ Len(ParamNames) = 3
  /\ Len(extracted.ParamNames) = 2
  /\ Elems(ParamNames) \cap Elems(call.ExceptList) # {}
  /\ Elems(ParamNames) \subseteq seen

\* The number of separators in a token.
EqCount(token) == Cardinality({i \in 1..Len(token) : token[i] = Eq})

WellFormed(token) == EqCount(token) = 1

\* The text of a well-formed token before its separator.
NameIn(token) ==
  SubSeq(token, 1, (CHOOSE i \in 1..Len(token) : token[i] = Eq) - 1)

\* Token i of the input repeats the name of an earlier token.
Repeats(i) ==
  /\ WellFormed(MethodDesc[i])
  /\ \E j \in 1..(i - 1) :
       WellFormed(MethodDesc[j]) /\ NameIn(MethodDesc[j]) = NameIn(MethodDesc[i])

Offending(i) == ~WellFormed(MethodDesc[i]) \/ Repeats(i)

\* The first token the constructor cannot accept.
FirstOffending ==
  CHOOSE i \in 1..Len(MethodDesc) :
    Offending(i) /\ \A j \in 1..(i - 1) : ~Offending(j)

HasDuplicate == \E i \in 1..Len(MethodDesc) : Repeats(i)

HasMalformed == \E i \in 1..Len(MethodDesc) : ~WellFormed(MethodDesc[i])

Constructed == call.op = "AnyParams"

\* C7 as claimed: whenever two tokens carry the same name, construction
\* fails with the duplicate-parameter error and produces no set.
C7_DuplicateError ==
  (Constructed /\ HasDuplicate) => (err.kind = "duplicate" /\ ~built)

\* C7, amended: whenever two tokens carry the same name, construction fails
\* and produces no set; the error is the duplicate-parameter error naming
\* the repeated name when the first token that cannot be accepted is a
\* repetition, and the malformed-parameter error of an earlier token
\* otherwise.
C7_DuplicateFails ==
  (Constructed /\ HasDuplicate) =>
    /\ ~built
    /\ ParamNames = <<>>
    /\ IF Repeats(FirstOffending)
       THEN err = Fatal("duplicate", NameIn(MethodDesc[FirstOffending]))
       ELSE err = Fatal("malformed", MethodDesc[FirstOffending])

\* The first and the third token carry one name with different values.
C7_Witness ==
  /\ Constructed
  /\ Len(MethodDesc) = 3
  /\ FirstOffending = 3
  /\ Repeats(3)
  /\ NameIn(MethodDesc[1]) = NameIn(MethodDesc[3])
  /\ MethodDesc[1] # MethodDesc[3]
  /\ err.kind = "duplicate"

\* C8 as claimed: whenever some token does not hold exactly one separator,
\* construction fails with the malformed-parameter error.
C8_MalformedError ==
  (Constructed /\ HasMalformed) => (err.kind = "malformed" /\ ~built)

\* C8, amended: whenever some token does not hold exactly one separator,
\* construction fails and produces no set; the error is the
\* malformed-parameter error of that token when no earlier token is
\* malformed or repeats a name, and the error of the earlier token otherwise.
C8_MalformedFails ==
  (Constructed /\ HasMalformed) =>
    /\ ~built
    /\ ParamNames = <<>>
    /\ IF WellFormed(MethodDesc[FirstOffending])
       THEN err = Fatal("duplicate", NameIn(MethodDesc[FirstOffending]))
       ELSE err = Fatal("malformed", MethodDesc[FirstOffending])

\* A token with two separators after two well-formed ones.
C8_Witness ==
  /\ Constructed
  /\ Len(MethodDesc) = 3
  /\ FirstOffending = 3
  /\ EqCount(MethodDesc[3]) = 2
  /\ err = Fatal("malformed", MethodDesc[3])

\* C9: from well-formed tokens with pairwise distinct names construction
\* succeeds, the set has one entry per token, and the name of entry i, a
\* separator and the value of entry i spell token i.
C9_RoundTrip ==
  (Constructed /\ ~HasDuplicate /\ ~HasMalformed) =>
    /\ built
    /\ err = NoErr
    /\ Len(ParamNames) = Len(MethodDesc)
    /\ Len(ParamValues) = Len(MethodDesc)
    /\ \A i \in 1..Len(MethodDesc) :
         ParamNames[i] \o <<Eq>> \o ParamValues[i] = MethodDesc[i]

\* Two tokens with different names were read back.
C9_Witness ==
  /\ Constructed
  /\ built
  /\ Len(MethodDesc) = 2
  /\ ParamNames[1] # ParamNames[2]
  /\ ParamValues[1] # ParamValues[2]

\* The entries of the set called Name, before a step.
Matches(Name) == {i \in 1..Len(ParamNames) : ParamNames[i] = Name}

\* The least element of a set of indices.
Least(S) == CHOOSE i \in S : \A j \in S : i <= j

\* C10: ChangeParam on a name of the set replaces the value of the first
\* entry with that name by the text of the new value and changes no name, no
\* other value and not the number of entries; on a name that is not in the
\* set it fails with the parameter-not-found error and changes nothing.
C10_ChangeParamFrame ==
  [][call'.op = "ChangeParam" =>
       /\ ParamNames' = ParamNames
       /\ Len(ParamValues') = Len(ParamValues)
       /\ IF Matches(call'.Name) # {}
          THEN /\ err' = NoErr
               /\ \A j \in 1..Len(ParamValues) :
                    IF j = Least(Matches(call'.Name))
                    THEN ParamValues'[j] = (IF call'.Value.type = "int"
                                            THEN <<"7">> ELSE call'.Value.s)
                    ELSE ParamValues'[j] = ParamValues[j]
          ELSE /\ err' = Fatal("notfound", call'.Name)
               /\ ParamValues' = ParamValues]_vars

\* The name is carried by two entries and only the first one was changed.
C10_Witness ==
  /\ call.op = "ChangeParam"
  /\ Cardinality(Matches(call.Name)) = 2
  /\ call.Value.type = "int"
  /\ ParamValues[Least(Matches(call.Name))] = <<"7">>
  /\ \A j \in Matches(call.Name) : j # Least(Matches(call.Name)) => ParamValues[j] = T4

IsGetter(c) == c.op \in {"GetParamRequired", "GetParamOptional"}

\* C11: when the requested name is carried by more than one entry of the
\* managed set, a getter that succeeds hands back the converted value of the
\* first of these entries.
C11_FirstMatchWins ==
  (IsGetter(call) /\ Cardinality(Matches(call.Name)) >= 2 /\ err = NoErr) =>
    Value = ConvertStrToValue(ParamValues[Least(Matches(call.Name))], call.Value).Value

\* A text made of decimal digits only.
AllDigits(text) ==
  /\ text # <<>>
  /\ \A i \in 1..Len(text) :
       text[i] \in {"0", "1", "2", "3", "4", "5", "6", "7", "8", "9"}

\* The one entry of the set the last getter call looked up.
TheMatch == CHOOSE i \in Matches(call.Name) : TRUE

\* C12: a getter for an int on a name carried by one entry succeeds exactly
\* when the stored text is one integer literal, and then hands back its
\* value ("42" gives 42); it fails with the conversion error naming the text
\* when characters are left over ("42x"). A getter for a string always
\* succeeds and hands back the stored text as it is.
C12_TypedConversion ==
  (IsGetter(call) /\ Cardinality(Matches(call.Name)) = 1) =>
    LET text == ParamValues[TheMatch] IN
      IF call.Value.type = "string"
      THEN err = NoErr /\ Value = StrValue(text)
      ELSE IF AllDigits(text)
           THEN /\ err = NoErr
                /\ Value.type = "int"
                /\ NatToStr(Value.n) = text
                /\ (text = T42 => Value.n = 42)
           ELSE err = Fatal("conversion", text)

\* An int asked for where "42x" is stored.
C12_Witness ==
  /\ IsGetter(call)
  /\ call.Value.type = "int"
  /\ Cardinality(Matches(call.Name)) = 1
  /\ ParamValues[TheMatch] = T42x
  /\ err = Fatal("conversion", T42x)

\* C13 as claimed: every name in seen was found in the managed set and
\* converted by a getter, or extracted from it; a name that is not in the set
\* is never in seen.
C13_SeenWereResolved ==
  mgr # "none" => seen \subseteq Elems(ParamNames)

\* C13, amended: a name enters seen only as the name of a getter call that
\* returned without failing, which is a name found in the set and converted
\* or the name of a GetParamOptional call that is not in the set, or as a
\* name of the set returned by ExtractParametersExcept.
C13_SeenWereHandled ==
  [][\A n \in seen' \ seen :
       \/ /\ IsGetter(call')
          /\ n = call'.Name
          /\ err' = NoErr
          /\ (Present(n) \/ call'.op = "GetParamOptional")
       \/ /\ call'.op = "ExtractParametersExcept"
          /\ n \in Elems(extracted'.ParamNames)]_vars

\* An optional lookup has put a name in seen that the set does not hold.
C13_Witness ==
  /\ call.op = "GetParamOptional"
  /\ ~Present(call.Name)
  /\ call.Name \in seen
  /\ ParamNames # <<>>

\* C15: seen is empty when the manager has been constructed, and a getter or
\* an extraction leaves every name in seen that was in it before.
C15_SeenGrows ==
  [][/\ call'.op = "AnyParamManager" => seen' = {}
     /\ (IsGetter(call') \/ call'.op = "ExtractParametersExcept")
          => seen \subseteq seen']_vars

\* A getter has added a second name to the one seen before.
C15_Witness ==
  /\ IsGetter(call)
  /\ err = NoErr
  /\ call.Name \in seen
  /\ Cardinality(seen) >= 2

ManagerCall(c) == IsGetter(c) \/ c.op = "ExtractParametersExcept"

\* C16: a getter or an extraction, failing or not, leaves the names and the
\* values of the managed set as they were.
C16_ManagedSetUnchanged ==
  [][ManagerCall(call') =>
       (ParamNames' = ParamNames /\ ParamValues' = ParamValues)]_vars

\* An extraction that took two of three entries; the set still has three.
C16_Witness ==
  /\ call.op = "ExtractParametersExcept"
  /\ Len(extracted.ParamNames) = 2
  /\ Len(ParamNames) = 3
  /\ Len(ParamValues) = 3

\* The set was made by AnyParams() or from raw tokens: the sets made from two
\* sequences are made without tokens and have a name.
FromTokensOrEmpty == built /\ (MethodDesc # <<>> \/ ParamNames = <<>>)

\* C17: a set made empty or from raw tokens has as many values as names,
\* also after ChangeParam; so has the set returned by
\* ExtractParametersExcept, also after a ChangeParam on it.
C17_SameLength ==
  /\ FromTokensOrEmpty => Len(ParamNames) = Len(ParamValues)
  /\ Len(extracted.ParamNames) = Len(extracted.ParamValues)
  /\ \A Name \in Names, V \in NewValues :
       Len(ChangeParamOf(extracted.ParamNames, extracted.ParamValues, Name, V).ParamValues)
         = Len(extracted.ParamNames)

\* A set of three tokens with equal values, after a value was replaced.
C17_Witness ==
  /\ call.op = "ChangeParam"
  /\ err = NoErr
  /\ Len(MethodDesc) = 3
  /\ Len(ParamNames) = 3
  /\ ParamValues[2] = ParamValues[3]

Distinct(q) == \A i, j \in 1..Len(q) : q[i] = q[j] => i = j

\* C18: the names of a set made from raw tokens are pairwise distinct, also
\* after ChangeParam, and so are the names of every set that
\* ExtractParametersExcept returns from it.
C18_NamesUnique ==
  FromTokensOrEmpty => (Distinct(ParamNames) /\ Distinct(extracted.ParamNames))

\* Two entries extracted from a set of three tokens after a value was replaced.
C18_Witness ==
  /\ call.op = "ExtractParametersExcept"
  /\ Len(MethodDesc) = 3
  /\ changes = 1
  /\ Len(ParamNames) = 3
  /\ Len(extracted.ParamNames) = 2

\* The entries of the set with the requested name whose text is not an
\* integer literal.
BadMatches(c) == {i \in Matches(c.Name) : ~AllDigits(ParamValues[i])}

\* C19: a getter for an int, optional or required, on a name of the set
\* whose stored text is not an integer literal fails with the conversion
\* error naming that text; the caller's default is not handed back as a
\* result and the call leaves seen as it was.
C19_OptionalConversionFails ==
  [][(IsGetter(call') /\ call'.Value.type = "int" /\ BadMatches(call') # {}) =>
       /\ err' = Fatal("conversion", ParamValues[Least(BadMatches(call'))])
       /\ Value' # call'.Value
       /\ seen' = seen]_vars

\* GetParamOptional for an int on the name holding "42x", not seen before.
C19_Witness ==
  /\ call.op = "GetParamOptional"
  /\ call.Value.type = "int"
  /\ BadMatches(call) # {}
  /\ err = Fatal("conversion", T42x)
  /\ call.Name \notin seen
  /\ seen # {}

\* C20: the constructor of the manager fails exactly when the set has not as
\* many values as names, no manager exists then, and so no getter and no
\* extraction ever runs on such a set.
C20_LengthsChecked ==
  /\ call.op = "AnyParamManager" =>
       IF Len(ParamNames) # Len(ParamValues)
       THEN err = Fatal("bug", <<>>) /\ mgr = "none"
       ELSE err = NoErr /\ mgr = "Active"
  /\ mgr # "none" => Len(ParamNames) = Len(ParamValues)
  /\ ManagerCall(call) => Len(ParamNames) = Len(ParamValues)

\* The constructor has refused a set with one name and two values.
C20_Witness ==
  /\ call.op = "AnyParamManager"
  /\ Len(ParamNames) = 1
  /\ Len(ParamValues) = 2
  /\ err.kind = "bug"
  /\ mgr = "none"

====
